---- MODULE Spec2Model ----
(***************************************************************************)
(* Model of the RAG engine of rag_engine.go: RAGEngine.AddDocuments,       *)
(* RAGEngine.GenerateResponse, ChunkText and calculateQualityScore.        *)
(*                                                                         *)
(* Go strings are modelled as sequences of one-character strings, so that  *)
(* concatenation, strings.TrimSpace, strings.LastIndex, slicing and        *)
(* strings.Contains are computed character by character.                   *)
(***************************************************************************)
EXTENDS Integers, Sequences, FiniteSets, TLC

VARIABLES
    engine,      \* the RAGEngine's fields (openai, milvus)
    chatCount,   \* number of ChatCompletion invocations the chat collaborator has received
    storeCount,  \* number of InsertDocuments invocations the store collaborator has received
    call,        \* the most recent engine call: operation, arguments, the collaborator
                 \* invocations it made and their replies, and the returned value
    text,        \* ChunkText: the text argument
    chunkSize,   \* ChunkText: the chunkSize argument
    overlap,     \* ChunkText: the overlap argument
    start,       \* ChunkText: the loop variable start
    chunks,      \* ChunkText: the chunks appended so far
    windows,     \* ChunkText: the [start, end) window of every iteration so far
    pc,          \* ChunkText: "idle", "loop", "done" or "diverged"
    docs,        \* calculateQualityScore: the docs argument
    score,       \* calculateQualityScore: the returned value (NoScore before the call)
    simArg,      \* getRelevanceCategory: the similarity argument, in 1/SimScale
    category,    \* getRelevanceCategory: the returned value (NoCategory before the call)
    inflight,    \* concurrent callers: for each caller, the position of its engine call,
                 \* the messages slice it has built and the record of the call
    milvusPc,    \* MilvusClientImpl.InsertDocuments: the step about to run, "idle" or "returned"
    insertArgs,  \* MilvusClientImpl.InsertDocuments: the texts and sources arguments
    hasCollection, \* MilvusClientImpl.InsertDocuments: the local variable hasCollection
    sdkCalls,    \* MilvusClientImpl.InsertDocuments: the steps performed so far, with
                 \* whether each succeeded
    insertRet,   \* MilvusClientImpl.InsertDocuments: the returned value (once returned)
    insertCount, \* number of InsertDocuments calls made on the client
    collection   \* the collection on the Milvus server

vars == <<engine, chatCount, storeCount, call, text, chunkSize, overlap, start,
          chunks, windows, pc, docs, score, simArg, category, inflight, milvusPc,
          insertArgs, hasCollection, sdkCalls, insertRet, insertCount, collection>>

engineVars == <<engine, chatCount, storeCount, call>>
chunkVars == <<text, chunkSize, overlap, start, chunks, windows, pc>>
scoreVars == <<docs, score>>
categoryVars == <<simArg, category>>
concVars == <<inflight>>
milvusVars == <<milvusPc, insertArgs, hasCollection, sdkCalls, insertRet, insertCount,
                collection>>

\* the variables that a call of one kind leaves alone
exceptEngine == <<chunkVars, scoreVars, categoryVars, concVars, milvusVars>>
exceptChunk == <<engineVars, scoreVars, categoryVars, concVars, milvusVars>>
exceptScore == <<engineVars, chunkVars, categoryVars, concVars, milvusVars>>
exceptCategory == <<engineVars, chunkVars, scoreVars, concVars, milvusVars>>
exceptConc == <<chunkVars, scoreVars, categoryVars, milvusVars>>
exceptMilvus == <<engineVars, chunkVars, scoreVars, categoryVars, concVars>>

(***************************************************************************)
(* Bounds of the model: MaxCalls bounds the collaborator invocations of a   *)
(* behaviour, MaxDocs the length of the slices passed to the engine.       *)
(***************************************************************************)
MaxCalls == 1
MaxDocs == 2

(***************************************************************************)
(* Strings.                                                                *)
(***************************************************************************)
\* unicode.IsSpace restricted to the characters the model uses
WhiteSpace == {" ", "\n", "\t", "\r"}

RECURSIVE TrimLeft(_)
TrimLeft(s) ==
    IF s # <<>> /\ Head(s) \in WhiteSpace THEN TrimLeft(Tail(s)) ELSE s

RECURSIVE TrimRight(_)
TrimRight(s) ==
    IF s # <<>> /\ s[Len(s)] \in WhiteSpace THEN TrimRight(SubSeq(s, 1, Len(s) - 1)) ELSE s

\* strings.TrimSpace
TrimSpace(s) == TrimRight(TrimLeft(s))

\* strings.Contains
Contains(s, sub) ==
    \E i \in 0..(Len(s) - Len(sub)) : SubSeq(s, i + 1, i + Len(sub)) = sub

DigitChar(d) == CASE d = 0 -> "0" [] d = 1 -> "1" [] d = 2 -> "2" [] d = 3 -> "3"
                  [] d = 4 -> "4" [] d = 5 -> "5" [] d = 6 -> "6" [] d = 7 -> "7"
                  [] d = 8 -> "8" [] d = 9 -> "9"

\* fmt verb %d for a non-negative integer
RECURSIVE FormatInt(_)
FormatInt(n) ==
    IF n < 10 THEN <<DigitChar(n)>> ELSE FormatInt(n \div 10) \o <<DigitChar(n % 10)>>

(***************************************************************************)
(* A Document's Similarity (a float32 in [0,1]) is modelled in thousandths:*)
(* Similarity = similarity / SimScale.                                     *)
(***************************************************************************)
SimScale == 1000

\* fmt verb %.1f applied to doc.Similarity*100
FormatPercent(similarity) ==
    FormatInt(similarity \div 10) \o <<".">> \o FormatInt(similarity % 10)

(***************************************************************************)
(* The string literals of GenerateResponse.                                *)
(***************************************************************************)
SystemContent ==
    <<"Y","o","u"," ","a","r","e"," ","a"," ","h","e","l","p","f","u","l"," ","a","s","s","i",
      "s","t","a","n","t"," ","t","h","a","t"," ","a","n","s","w","e","r","s"," ","q","u","e",
      "s","t","i","o","n","s"," ","b","a","s","e","d"," ","o","n"," ","p","r","o","v","i","d",
      "e","d"," ","c","o","n","t","e","x","t",".">>

PromptHeader ==
    <<"Y","o","u"," ","a","r","e"," ","a"," ","h","e","l","p","f","u","l"," ","a","s","s","i",
      "s","t","a","n","t"," ","t","h","a","t"," ","a","n","s","w","e","r","s"," ","q","u","e",
      "s","t","i","o","n","s"," ","b","a","s","e","d"," ","o","n"," ","t","h","e"," ","p","r",
      "o","v","i","d","e","d"," ","c","o","n","t","e","x","t",".","\n","U","s","e"," ","t","h",
      "e"," ","c","o","n","t","e","x","t"," ","b","e","l","o","w"," ","t","o"," ","a","n","s",
      "w","e","r"," ","t","h","e"," ","u","s","e","r","'","s"," ","q","u","e","s","t","i","o",
      "n","."," ","I","f"," ","t","h","e"," ","a","n","s","w","e","r"," ","c","a","n","n","o",
      "t"," ","b","e"," ","f","o","u","n","d"," ","i","n"," ","t","h","e"," ","c","o","n","t",
      "e","x","t",",","\n","s","a","y"," ","\"","I"," ","d","o","n","'","t"," ","h","a","v","e",
      " ","e","n","o","u","g","h"," ","i","n","f","o","r","m","a","t","i","o","n"," ","t","o",
      " ","a","n","s","w","e","r"," ","t","h","a","t"," ","q","u","e","s","t","i","o","n"," ",
      "b","a","s","e","d"," ","o","n"," ","t","h","e"," ","p","r","o","v","i","d","e","d"," ",
      "c","o","n","t","e","x","t",".","\"","\n","\n","C","o","n","t","e","x","t",":","\n">>

PromptQuestion ==
    <<"\n","\n","Q","u","e","s","t","i","o","n",":"," ">>

PromptAnswer ==
    <<"\n","\n","A","n","s","w","e","r",":">>

SourcePrefix ==
    <<"S","o","u","r","c","e"," ">>

RelevantSuffix ==
    <<"%"," ","r","e","l","e","v","a","n","t",")",":"," ">>

ContentPrefix ==
    <<"C","o","n","t","e","n","t",":"," ">>

(***************************************************************************)
(* Inputs of the engine calls.                                             *)
(***************************************************************************)
SeqsUpTo(S, n) == UNION {[1..k -> S] : k \in 0..n}

InsertTexts == {<<"d","o","c","1">>, <<"d","o","c","2">>}
Sources == {<<"s","1">>, <<"s","2">>}
Queries == {<<"q","?">>, <<" ","q"," ">>}
Models == {"model-x", "gpt-test"}

\* type Document: a plain text, a text that ends with whitespace, a text that
\* begins with whitespace and a text of whitespace only
Documents ==
    { [Text |-> <<"c","a","t">>,     Source |-> <<"s","r","c">>, Similarity |-> 850],
      [Text |-> <<"c","a","t"," ">>, Source |-> <<"s","r","c">>, Similarity |-> 425],
      [Text |-> <<" ","c","a","t">>, Source |-> <<"s","r","c">>, Similarity |-> 850],
      [Text |-> <<"\t">>,            Source |-> <<"s","r","c">>, Similarity |-> 425] }

\* the error value nil and the errors the chat collaborator may return
Nil == "nil"
Errors == {"timeout", "rate limited"}

\* what ChatCompletion may return: (text, nil) or (text, err)
Replies ==
    [text : {"stubbed", ""}, err : {Nil}] \cup [text : {"partial"}, err : Errors]

(***************************************************************************)
(* calculateQualityScore                                                   *)
(*                                                                         *)
(* The float32 arithmetic is modelled exactly, in fixed point: a score is  *)
(* an integer number of 1/ScoreScale, ScoreScale being a common multiple   *)
(* of SimScale and of the three normalising denominators 5.0, 8.0, 10.0.   *)
(***************************************************************************)
MaxScoreDocs == 4

ScoreScale == 40 * SimScale

NoScore == -1

ScoreSimilarities == {0, 425, 850, 1000}
ScoreDocuments == [Text : {<<"c","a","t">>}, Source : {<<"s","r","c">>},
                   Similarity : ScoreSimilarities]

\* weights that penalise the documents beyond the top 3
Weight10_Penalty(i) == CASE i = 1 -> 5 [] i = 2 -> 3 [] i = 3 -> 2 [] OTHER -> -1

\* weights[i], or 0.1 beyond the top 3, in tenths (i is 1-based here)
Weight10(i) == CASE i = 1 -> 5 [] i = 2 -> 3 [] i = 3 -> 2 [] OTHER -> 1

\* totalScore after the first n documents, in 1/SimScale
RECURSIVE TotalScore(_, _)
TotalScore(ds, n) ==
    IF n = 0 THEN 0 ELSE TotalScore(ds, n - 1) + ds[n].Similarity * Weight10(n)

\* a normalisation that ignores the number of documents
MaxPossibleScore_AlwaysTen(ds) == 10

\* maxPossibleScore
MaxPossibleScore(ds) == IF Len(ds) = 1 THEN 5 ELSE IF Len(ds) = 2 THEN 8 ELSE 10

\* a score that is never clamped
ClampScore_None(q) == q

\* if qualityScore > 10.0 { qualityScore = 10.0 }
ClampScore(q) == IF q > 10 * ScoreScale THEN 10 * ScoreScale ELSE q

calculateQualityScore(ds) ==
    IF Len(ds) = 0 THEN 0
    ELSE ClampScore(TotalScore(ds, Len(ds)) * (400 \div MaxPossibleScore(ds)))

\* a categorisation whose bounds are exclusive
getRelevanceCategory_Exclusive(similarity) ==
    CASE similarity * 10 > 9 * SimScale -> "Excellent Match"
      [] similarity * 10 > 8 * SimScale -> "Very Relevant"
      [] similarity * 10 > 7 * SimScale -> "Relevant"
      [] similarity * 10 > 6 * SimScale -> "Moderately Relevant"
      [] similarity * 10 > 5 * SimScale -> "Somewhat Relevant"
      [] similarity * 10 > 4 * SimScale -> "Low Relevance"
      [] OTHER -> "Poor Match"

\* the switch of getRelevanceCategory: the first case that holds, top down
getRelevanceCategory(similarity) ==
    IF similarity * 10 >= 9 * SimScale THEN "Excellent Match"
    ELSE IF similarity * 10 >= 8 * SimScale THEN "Very Relevant"
    ELSE IF similarity * 10 >= 7 * SimScale THEN "Relevant"
    ELSE IF similarity * 10 >= 6 * SimScale THEN "Moderately Relevant"
    ELSE IF similarity * 10 >= 5 * SimScale THEN "Somewhat Relevant"
    ELSE IF similarity * 10 >= 4 * SimScale THEN "Low Relevance"
    ELSE "Poor Match"

\* the switch of getQualityDescription, on a score in 1/ScoreScale
getQualityDescription(q) ==
    IF q >= 9 * ScoreScale THEN "Exceptional"
    ELSE IF q >= 8 * ScoreScale THEN "Excellent"
    ELSE IF q >= 7 * ScoreScale THEN "Very Good"
    ELSE IF q >= 6 * ScoreScale THEN "Good"
    ELSE IF q >= 5 * ScoreScale THEN "Fair"
    ELSE IF q >= 4 * ScoreScale THEN "Below Average"
    ELSE IF q >= 3 * ScoreScale THEN "Poor"
    ELSE "Very Poor"

RECURSIVE TotalSimilarity(_, _)
TotalSimilarity(ctx, n) ==
    IF n = 0 THEN 0 ELSE TotalSimilarity(ctx, n - 1) + ctx[n].Similarity

NoDiagnostics ==
    [relevance |-> <<>>, total |-> 0, max |-> 0, min |-> 0,
     quality |-> NoScore, description |-> ""]

\* what GenerateResponse computes for its log when len(ctx) > 0: the relevance
\* category of every document, the total, largest and smallest similarity,
\* the quality score and its description
Diagnostics(ctx) ==
    IF Len(ctx) > 0
    THEN [relevance |-> [i \in 1..Len(ctx) |-> getRelevanceCategory(ctx[i].Similarity)],
          total |-> TotalSimilarity(ctx, Len(ctx)),
          max |-> CHOOSE m \in {ctx[i].Similarity : i \in 1..Len(ctx)} :
                     \A i \in 1..Len(ctx) : ctx[i].Similarity <= m,
          min |-> CHOOSE m \in {ctx[i].Similarity : i \in 1..Len(ctx)} :
                     \A i \in 1..Len(ctx) : ctx[i].Similarity >= m,
          quality |-> calculateQualityScore(ctx),
          description |-> getQualityDescription(calculateQualityScore(ctx))]
    ELSE NoDiagnostics

(***************************************************************************)
(* RAGEngine.GenerateResponse                                              *)
(***************************************************************************)
\* the block written to contextBuilder for the i-th document (1-based)
ContextBlock(i, doc) ==
    SourcePrefix \o FormatInt(i) \o <<" ", "(">> \o FormatPercent(doc.Similarity)
        \o RelevantSuffix \o doc.Source \o <<"\n">>
        \o ContentPrefix \o doc.Text \o <<"\n", "\n">>

RECURSIVE ContextBuilder(_, _)
ContextBuilder(ctx, n) ==
    IF n = 0 THEN <<>> ELSE ContextBuilder(ctx, n - 1) \o ContextBlock(n, ctx[n])

\* a context that trims every document's text before writing it
BuildContext_TrimEachText(ctx) ==
    TrimSpace(ContextBuilder([i \in 1..Len(ctx) |->
                  [ctx[i] EXCEPT !.Text = TrimSpace(ctx[i].Text)]], Len(ctx)))

\* a context that leaves out the documents of low relevance
BuildContext_DropLowRelevance(ctx) ==
    LET IsRelevant(doc) == doc.Similarity * 10 >= 5 * SimScale
        kept == SelectSeq(ctx, IsRelevant)
    IN  TrimSpace(ContextBuilder(kept, Len(kept)))

\* context := strings.TrimSpace(contextBuilder.String())
BuildContext(ctx) == TrimSpace(ContextBuilder(ctx, Len(ctx)))

\* a prompt that is the bare query when there is no document
BuildPrompt_QueryOnlyWithoutDocs(query, ctx) ==
    IF ctx = <<>> THEN query
    ELSE PromptHeader \o BuildContext(ctx) \o PromptQuestion \o query \o PromptAnswer

BuildPrompt(query, ctx) ==
    PromptHeader \o BuildContext(ctx) \o PromptQuestion \o query \o PromptAnswer

\* the two messages in the other order
BuildMessages_UserFirst(query, ctx) ==
    << [Role |-> "user", Content |-> BuildPrompt(query, ctx)],
       [Role |-> "system", Content |-> SystemContent] >>

BuildMessages(query, ctx) ==
    << [Role |-> "system", Content |-> SystemContent],
       [Role |-> "user", Content |-> BuildPrompt(query, ctx)] >>

\* a call that ignores the caller's model
ChatCompletionArgs_DefaultModel(model, messages) ==
    [model |-> "gpt-3.5-turbo", messages |-> messages]

\* the arguments of r.openai.ChatCompletion(model, messages)
ChatCompletionArgs(model, messages) == [model |-> model, messages |-> messages]

\* a return that logs the error and hides it from the caller
GenerateResponseReturn_Swallow(reply) ==
    [text |-> IF reply.err # Nil THEN "" ELSE reply.text, err |-> Nil]

\* if err != nil { return "", err }; return response, nil
GenerateResponseReturn(reply) ==
    IF reply.err # Nil THEN [text |-> "", err |-> reply.err]
                       ELSE [text |-> reply.text, err |-> Nil]

NoCall ==
    [op |-> "none", query |-> <<>>, ctx |-> <<>>, model |-> "", texts |-> <<>>,
     sources |-> <<>>, reply |-> [text |-> "", err |-> Nil], storeOk |-> FALSE,
     diag |-> NoDiagnostics, chatInvoked |-> <<>>, storeInvoked |-> <<>>,
     retText |-> "", retErr |-> Nil, retOk |-> FALSE]

\* a call that tries the chat collaborator again after a failure
GenerateResponseCalls_Retry(model, messages, reply) ==
    IF reply.err # Nil
    THEN <<ChatCompletionArgs(model, messages), ChatCompletionArgs(model, messages)>>
    ELSE <<ChatCompletionArgs(model, messages)>>

\* the collaborator invocations of one GenerateResponse call: the single
\* r.openai.ChatCompletion(model, messages), whatever it replies
GenerateResponseCalls(model, messages, reply) ==
    <<ChatCompletionArgs(model, messages)>>

\* GenerateResponse(query, ctx, model), the chat collaborator answering reply;
\* messages is the slice built from query and ctx
GenerateResponse(query, ctx, model, messages, reply) ==
    /\ chatCount + storeCount < MaxCalls
    /\ LET invoked == GenerateResponseCalls(model, messages, reply)
           ret == GenerateResponseReturn(reply)
       IN  /\ chatCount' = chatCount + Len(invoked)
           /\ call' = [NoCall EXCEPT
                         !.op = "GenerateResponse", !.query = query, !.ctx = ctx,
                         !.model = model, !.reply = reply, !.diag = Diagnostics(ctx),
                         !.chatInvoked = invoked,
                         !.retText = ret.text, !.retErr = ret.err]
    /\ UNCHANGED <<engine, storeCount>>

(***************************************************************************)
(* RAGEngine.AddDocuments                                                  *)
(***************************************************************************)
\* a guard that lets every pair of slices through
LengthsMatch_Always(texts, sources) == TRUE

\* the negation of: len(texts) != len(sources)
LengthsMatch(texts, sources) == Len(texts) = Len(sources)

\* a delegation with the two slices exchanged
InsertDocumentsArgs_Swapped(texts, sources) == [texts |-> sources, sources |-> texts]

\* the arguments of r.milvus.InsertDocuments(texts, sources)
InsertDocumentsArgs(texts, sources) == [texts |-> texts, sources |-> sources]

\* the collaborator invocations of one AddDocuments call
AddDocumentsCalls(texts, sources) ==
    IF LengthsMatch(texts, sources) THEN <<InsertDocumentsArgs(texts, sources)>> ELSE <<>>

\* a return that reports success whatever the store said
AddDocumentsReturn_AlwaysTrue(texts, sources, storeOk) == LengthsMatch(texts, sources)

\* return false on a mismatch, else the store's result
AddDocumentsReturn(texts, sources, storeOk) ==
    IF LengthsMatch(texts, sources) THEN storeOk ELSE FALSE

AddDocuments(texts, sources, storeOk) ==
    LET invoked == AddDocumentsCalls(texts, sources)
    IN  /\ invoked # <<>> => chatCount + storeCount < MaxCalls
        /\ storeCount' = storeCount + Len(invoked)
        /\ call' = [NoCall EXCEPT !.op = "AddDocuments", !.texts = texts,
                      !.sources = sources, !.storeOk = storeOk,
                      !.storeInvoked = invoked,
                      !.retOk = AddDocumentsReturn(texts, sources, storeOk)]
        /\ UNCHANGED <<engine, chatCount>>

(***************************************************************************)
(* ChunkText                                                               *)
(*                                                                         *)
(* One action per iteration of the for loop.  The loop body is a function  *)
(* of start alone (text, chunkSize and overlap never change), so when an   *)
(* iteration sets start to a value that an iteration has already begun     *)
(* with, the loop repeats those iterations forever, appending the same     *)
(* chunks again and again, and ChunkText never returns: pc = "diverged"    *)
(* records that outcome.                                                   *)
(***************************************************************************)
MaxTextLen == 6
MaxChunkSize == 5

ChunkChars == {"A", ".", " ", "\n"}
ChunkTexts == SeqsUpTo(ChunkChars, MaxTextLen)

\* the input of TestChunkTextOverlaps: strings.Repeat("A", 15), 10, 2
TestText == [i \in 1..15 |-> "A"]
TestChunkSize == 10
TestOverlap == 2

\* a text whose second window of 5 characters has its only period past the
\* window's midpoint: "AAAAAAAA.AAA"
LateBreakText == [i \in 1..12 |-> IF i = 9 THEN "." ELSE "A"]

\* bound on the texts of the calls outside the contract
MaxMisuseTextLen == 3

Min(a, b) == IF a < b THEN a ELSE b
Max(a, b) == IF a > b THEN a ELSE b

\* strings.LastIndex(s, c) for a one-character c: a 0-based index, or -1
LastIndex(s, c) ==
    IF \E i \in 1..Len(s) : s[i] = c
    THEN (CHOOSE i \in 1..Len(s) : s[i] = c /\ \A j \in (i + 1)..Len(s) : s[j] # c) - 1
    ELSE -1

\* the Go slice s[from:to]
Slice(s, from, to) == SubSeq(s, from + 1, to)

\* end := start + chunkSize; if end > len(text) { end = len(text) }
RawEnd(txt, size, st) == Min(st + size, Len(txt))

\* lastBreak: the later of the last "." and the last "\n" of the chunk
LastBreak(chunk) == Max(LastIndex(chunk, "."), LastIndex(chunk, "\n"))

\* whether the chunk is cut after its last break
BreaksAt(txt, size, st) ==
    /\ RawEnd(txt, size, st) < Len(txt)
    /\ LastBreak(Slice(txt, st, RawEnd(txt, size, st))) > st + (size \div 2)

\* end after the sentence-boundary adjustment
ChunkEnd(txt, size, st) ==
    IF BreaksAt(txt, size, st)
    THEN st + LastBreak(Slice(txt, st, RawEnd(txt, size, st))) + 1
    ELSE RawEnd(txt, size, st)

\* a chunk that keeps its surrounding whitespace
TrimmedChunk_Untrimmed(txt, size, st) == Slice(txt, st, ChunkEnd(txt, size, st))

\* chunk = strings.TrimSpace(chunk)
TrimmedChunk(txt, size, st) == TrimSpace(Slice(txt, st, ChunkEnd(txt, size, st)))

\* a next start that skips the overlap
NextStart_NoOverlap(end, ov) == end

\* start = end - overlap; if start < 0 { start = 0 }
NextStart(end, ov) == Max(end - ov, 0)

StartsSeen(ws) == {ws[i].start : i \in 1..Len(ws)}

\* for start < len(text) { ... }: the loop condition fails
ChunkExit ==
    /\ pc = "loop"
    /\ ~(start < Len(text))
    /\ pc' = "done"
    /\ UNCHANGED <<text, chunkSize, overlap, start, chunks, windows>>
    /\ UNCHANGED exceptChunk

\* chunk := text[start:end] with end < start: the slice expression panics
\* (slice bounds out of range) and ChunkText does not return
ChunkPanic ==
    /\ pc = "loop"
    /\ start < Len(text)
    /\ RawEnd(text, chunkSize, start) < start
    /\ pc' = "panic"
    /\ UNCHANGED <<text, chunkSize, overlap, start, chunks, windows>>
    /\ UNCHANGED exceptChunk

\* one iteration of the loop body (chunkSize >= 0 whenever the slice is in
\* range, so chunkSize/2 is chunkSize \div 2)
ChunkIterate ==
    /\ pc = "loop"
    /\ start < Len(text)
    /\ start <= RawEnd(text, chunkSize, start)
    /\ LET end == ChunkEnd(text, chunkSize, start)
           chunk == TrimmedChunk(text, chunkSize, start)
       IN  /\ chunks' = IF chunk # <<>> THEN Append(chunks, chunk) ELSE chunks
           /\ windows' = Append(windows, [start |-> start, end |-> end, chunk |-> chunk])
           /\ IF end = Len(text)
              THEN /\ pc' = "done"
                   /\ start' = start
              ELSE /\ start' = NextStart(end, overlap)
                   /\ pc' = IF NextStart(end, overlap) \in StartsSeen(windows')
                            THEN "diverged" ELSE "loop"
    /\ UNCHANGED <<text, chunkSize, overlap>>
    /\ UNCHANGED exceptChunk

(***************************************************************************)
(* The call calculateQualityScore(docs).                                   *)
(***************************************************************************)
CalculateQualityScore ==
    /\ score = NoScore
    /\ score' = calculateQualityScore(docs)
    /\ UNCHANGED docs
    /\ UNCHANGED exceptScore

(***************************************************************************)
(* The call getRelevanceCategory(similarity).                              *)
(***************************************************************************)
NoCategory == "none"

GetRelevanceCategory ==
    /\ category = NoCategory
    /\ category' = getRelevanceCategory(simArg)
    /\ UNCHANGED simArg
    /\ UNCHANGED exceptCategory

(***************************************************************************)
(* Concurrent calls of AddDocuments and GenerateResponse.                  *)
(*                                                                         *)
(* Every caller runs one engine call in a goroutine of its own.  A call    *)
(* reads the engine's fields, its arguments and its local variables; the   *)
(* points where calls interleave are the invocation of a collaborator and  *)
(* the collaborator's reply.                                               *)
(***************************************************************************)
Callers == {"c1", "c2"}

\* a caller that has not called yet
IdleFrame == [state |-> "idle", messages |-> <<>>, call |-> NoCall]

\* the context slices and the (texts, sources) pairs that the callers pass
ConcContexts ==
    { <<>>,
      <<[Text |-> <<"c","a","t">>, Source |-> <<"s","r","c">>, Similarity |-> 850]>>,
      <<[Text |-> <<"c","a","t"," ">>, Source |-> <<"s","r","c">>, Similarity |-> 425],
        [Text |-> <<" ","c","a","t">>, Source |-> <<"s","r","c">>, Similarity |-> 850]>> }

ConcInserts ==
    { [texts |-> <<<<"d","o","c","1">>>>, sources |-> <<<<"s","1">>>>],
      [texts |-> <<<<"d","o","c","2">>, <<"d","o","c","1">>>>,
       sources |-> <<<<"s","2">>, <<"s","1">>>>],
      [texts |-> <<<<"d","o","c","1">>>>, sources |-> <<>>] }

\* a messages slice kept in a place that the calls share, where a call finds
\* what another call has built
MessagesOf_Shared(c, frames) ==
    IF \E d \in Callers \ {c} : frames[d].messages # <<>>
    THEN frames[CHOOSE d \in Callers \ {c} : frames[d].messages # <<>>].messages
    ELSE frames[c].messages

\* messages is a local variable of GenerateResponse: each call has its own
MessagesOf(c, frames) == frames[c].messages

\* GenerateResponse up to the messages slice (diagnostics, context, prompt)
ConcBuildMessages(c) ==
    /\ inflight[c].state = "idle"
    /\ \E query \in Queries, ctx \in ConcContexts, model \in Models :
          inflight' = [inflight EXCEPT ![c] =
              [state |-> "built",
               messages |-> BuildMessages(query, ctx),
               call |-> [NoCall EXCEPT !.op = "GenerateResponse", !.query = query,
                           !.ctx = ctx, !.model = model, !.diag = Diagnostics(ctx)]]]
    /\ UNCHANGED engineVars
    /\ UNCHANGED exceptConc

\* GenerateResponse invokes r.openai.ChatCompletion(model, messages)
ConcInvokeChat(c) ==
    /\ inflight[c].state = "built"
    /\ inflight' = [inflight EXCEPT
          ![c].state = "waiting",
          ![c].call.chatInvoked =
              <<ChatCompletionArgs(inflight[c].call.model, MessagesOf(c, inflight))>>]
    /\ chatCount' = chatCount + 1
    /\ UNCHANGED <<engine, storeCount, call>>
    /\ UNCHANGED exceptConc

\* ChatCompletion replies and GenerateResponse returns
ConcChatReply(c) ==
    /\ inflight[c].state = "waiting"
    /\ inflight[c].call.op = "GenerateResponse"
    /\ \E reply \in Replies :
          LET ret == GenerateResponseReturn(reply)
          IN  inflight' = [inflight EXCEPT
                  ![c].state = "returned",
                  ![c].call.reply = reply,
                  ![c].call.retText = ret.text,
                  ![c].call.retErr = ret.err]
    /\ UNCHANGED engineVars
    /\ UNCHANGED exceptConc

\* AddDocuments checks the lengths and either returns false or invokes
\* r.milvus.InsertDocuments(texts, sources)
ConcInvokeStore(c) ==
    /\ inflight[c].state = "idle"
    /\ \E args \in ConcInserts :
          LET invoked == AddDocumentsCalls(args.texts, args.sources)
          IN  /\ inflight' = [inflight EXCEPT ![c] =
                    [state |-> IF invoked = <<>> THEN "returned" ELSE "waiting",
                     messages |-> <<>>,
                     call |-> [NoCall EXCEPT !.op = "AddDocuments",
                                 !.texts = args.texts, !.sources = args.sources,
                                 !.storeInvoked = invoked,
                                 !.retOk = AddDocumentsReturn(args.texts, args.sources,
                                                              FALSE)]]]
              /\ storeCount' = storeCount + Len(invoked)
    /\ UNCHANGED <<engine, chatCount, call>>
    /\ UNCHANGED exceptConc

\* InsertDocuments replies and AddDocuments returns
ConcStoreReply(c) ==
    /\ inflight[c].state = "waiting"
    /\ inflight[c].call.op = "AddDocuments"
    /\ \E storeOk \in BOOLEAN :
          inflight' = [inflight EXCEPT
              ![c].state = "returned",
              ![c].call.storeOk = storeOk,
              ![c].call.retOk = AddDocumentsReturn(inflight[c].call.texts,
                                                   inflight[c].call.sources, storeOk)]
    /\ UNCHANGED engineVars
    /\ UNCHANGED exceptConc

(***************************************************************************)
(* MilvusClientImpl.InsertDocuments                                        *)
(*                                                                         *)
(* The method is a sequence of calls of the Milvus SDK, each of which may  *)
(* fail; the collection on the server outlives the call.                   *)
(***************************************************************************)
MaxInserts == 2

MilvusInserts ==
    { [texts |-> <<<<"d","o","c","1">>>>, sources |-> <<<<"s","1">>>>],
      [texts |-> <<<<"d","o","c","1">>, <<"d","o","c","2">>>>,
       sources |-> <<<<"s","1">>, <<"s","2">>>>] }

\* a server without the collection, and one where it is ready for use
NoCollection ==
    [exists |-> FALSE, indexed |-> FALSE, loaded |-> FALSE, rows |-> 0, flushed |-> 0]

ReadyCollection ==
    [exists |-> TRUE, indexed |-> TRUE, loaded |-> TRUE, rows |-> 0, flushed |-> 0]

\* the step that follows a successful step
NextStep(step, has) ==
    CASE step = "HasCollection" -> IF has THEN "Insert" ELSE "CreateCollection"
      [] step = "CreateCollection" -> "NewIndexHNSW"
      [] step = "NewIndexHNSW" -> "CreateIndex"
      [] step = "CreateIndex" -> "LoadCollection"
      [] step = "LoadCollection" -> "Insert"
      [] step = "Insert" -> "Flush"
      [] step = "Flush" -> "returned"

\* a method that logs an error and carries on
AfterStep_IgnoreError(step, ok, has) == NextStep(step, has)

\* if err != nil { log; return false }
AfterStep(step, ok, has) == IF ok THEN NextStep(step, has) ELSE "returned"

\* the value returned once the method has returned: false after a failed
\* step, true after the flush
ReturnAfter(step, ok) == ok /\ step = "Flush"

\* what a successful step does to the collection
StepEffect(step, coll, args) ==
    CASE step = "CreateCollection" -> [coll EXCEPT !.exists = TRUE]
      [] step = "CreateIndex" -> [coll EXCEPT !.indexed = TRUE]
      [] step = "LoadCollection" -> [coll EXCEPT !.loaded = TRUE]
      [] step = "Insert" -> [coll EXCEPT !.rows = coll.rows + Len(args.texts)]
      [] step = "Flush" -> [coll EXCEPT !.flushed = coll.rows]
      [] OTHER -> coll

\* a client calls InsertDocuments(texts, sources)
InsertDocumentsBegin ==
    /\ milvusPc \in {"idle", "returned"}
    /\ insertCount < MaxInserts
    /\ \E args \in MilvusInserts : insertArgs' = args
    /\ milvusPc' = "HasCollection"
    /\ hasCollection' = FALSE
    /\ sdkCalls' = <<>>
    /\ insertRet' = FALSE
    /\ insertCount' = insertCount + 1
    /\ UNCHANGED collection
    /\ UNCHANGED exceptMilvus

\* one step of the method, which succeeds or fails
SdkStep(step, ok) ==
    /\ milvusPc = step
    /\ hasCollection' = IF step = "HasCollection" THEN ok /\ collection.exists
                                                   ELSE hasCollection
    /\ milvusPc' = AfterStep(step, ok, hasCollection')
    /\ sdkCalls' = Append(sdkCalls, [step |-> step, ok |-> ok])
    /\ insertRet' = ReturnAfter(step, ok)
    /\ collection' = IF ok THEN StepEffect(step, collection, insertArgs) ELSE collection
    /\ UNCHANGED <<insertArgs, insertCount>>
    /\ UNCHANGED exceptMilvus

HasCollectionStep == \E ok \in BOOLEAN : SdkStep("HasCollection", ok)
CreateCollectionStep == \E ok \in BOOLEAN : SdkStep("CreateCollection", ok)
NewIndexHNSWStep == \E ok \in BOOLEAN : SdkStep("NewIndexHNSW", ok)
CreateIndexStep == \E ok \in BOOLEAN : SdkStep("CreateIndex", ok)
LoadCollectionStep == \E ok \in BOOLEAN : SdkStep("LoadCollection", ok)
InsertStep == \E ok \in BOOLEAN : SdkStep("Insert", ok)
FlushStep == \E ok \in BOOLEAN : SdkStep("Flush", ok)

(***************************************************************************)
(* Specifications.                                                         *)
(***************************************************************************)
EngineIdle ==
    /\ engine = [openai |-> "openai", milvus |-> "milvus"]
    /\ chatCount = 0
    /\ storeCount = 0
    /\ call = NoCall

ChunkIdle ==
    /\ text = <<>>
    /\ chunkSize = 1
    /\ overlap = 0
    /\ start = 0
    /\ chunks = <<>>
    /\ windows = <<>>
    /\ pc = "idle"

ScoreIdle ==
    /\ docs = <<>>
    /\ score = NoScore

CategoryIdle ==
    /\ simArg = 0
    /\ category = NoCategory

ConcIdle == inflight = [c \in Callers |-> IdleFrame]

MilvusIdle ==
    /\ milvusPc = "idle"
    /\ insertArgs = [texts |-> <<>>, sources |-> <<>>]
    /\ hasCollection = FALSE
    /\ sdkCalls = <<>>
    /\ insertRet = FALSE
    /\ insertCount = 0
    /\ collection = NoCollection

\* the engine after NewRAGEngine(openai, milvus)
Init == EngineIdle /\ ChunkIdle /\ ScoreIdle /\ CategoryIdle /\ ConcIdle /\ MilvusIdle

GenerateResponseCall ==
    /\ chatCount + storeCount < MaxCalls
    /\ \E query \in Queries, ctx \in SeqsUpTo(Documents, MaxDocs) :
          LET messages == BuildMessages(query, ctx)
          IN  \E model \in Models, reply \in Replies :
                  GenerateResponse(query, ctx, model, messages, reply)
    /\ UNCHANGED exceptEngine

AddDocumentsCall ==
    /\ \E texts \in SeqsUpTo(InsertTexts, MaxDocs), sources \in SeqsUpTo(Sources, MaxDocs),
          storeOk \in BOOLEAN : AddDocuments(texts, sources, storeOk)
    /\ UNCHANGED exceptEngine

Next == GenerateResponseCall \/ AddDocumentsCall

Spec == Init /\ [][Next]_vars

\* a call ChunkText(text, chunkSize, overlap) within the contract
\* chunkSize > 0, 0 <= overlap < chunkSize
ChunkInit ==
    /\ EngineIdle /\ ScoreIdle /\ CategoryIdle /\ ConcIdle /\ MilvusIdle
    /\ \/ /\ text \in ChunkTexts
          /\ chunkSize \in 1..MaxChunkSize
          /\ overlap \in 0..(chunkSize - 1)
       \/ /\ text = TestText
          /\ chunkSize = TestChunkSize
          /\ overlap = TestOverlap
       \/ /\ text = LateBreakText
          /\ chunkSize = 5
          /\ overlap = 0
    /\ start = 0
    /\ chunks = <<>>
    /\ windows = <<>>
    /\ pc = "loop"

ChunkNext == ChunkExit \/ ChunkIterate

ChunkSpec == ChunkInit /\ [][ChunkNext]_vars

\* a call ChunkText(text, chunkSize, overlap) with any integers, those
\* outside the contract included (chunkSize <= 0, overlap < 0,
\* overlap >= chunkSize)
MisuseInit ==
    /\ EngineIdle /\ ScoreIdle /\ CategoryIdle /\ ConcIdle /\ MilvusIdle
    /\ text \in SeqsUpTo(ChunkChars, MaxMisuseTextLen)
    /\ chunkSize \in (0 - MaxChunkSize)..MaxChunkSize
    /\ overlap \in (0 - MaxChunkSize)..(MaxChunkSize + 1)
    /\ start = 0
    /\ chunks = <<>>
    /\ windows = <<>>
    /\ pc = "loop"

MisuseNext == ChunkExit \/ ChunkIterate \/ ChunkPanic

MisuseSpec == MisuseInit /\ [][MisuseNext]_vars

\* a call calculateQualityScore(docs)
ScoreInit ==
    /\ EngineIdle /\ ChunkIdle /\ CategoryIdle /\ ConcIdle /\ MilvusIdle
    /\ docs \in SeqsUpTo(ScoreDocuments, MaxScoreDocs)
    /\ score = NoScore

ScoreNext == CalculateQualityScore

ScoreSpec == ScoreInit /\ [][ScoreNext]_vars

\* a call getRelevanceCategory(similarity) with a similarity in [0,1]
CategoryInit ==
    /\ EngineIdle /\ ChunkIdle /\ ScoreIdle /\ ConcIdle /\ MilvusIdle
    /\ simArg \in 0..SimScale
    /\ category = NoCategory

CategoryNext == GetRelevanceCategory

CategorySpec == CategoryInit /\ [][CategoryNext]_vars

\* two callers, each making one AddDocuments or GenerateResponse call on the
\* same engine, in any interleaving
ConcInit == EngineIdle /\ ChunkIdle /\ ScoreIdle /\ CategoryIdle /\ ConcIdle /\ MilvusIdle

ConcNext ==
    \E c \in Callers :
        \/ ConcBuildMessages(c)
        \/ ConcInvokeChat(c)
        \/ ConcChatReply(c)
        \/ ConcInvokeStore(c)
        \/ ConcStoreReply(c)

ConcSpec == ConcInit /\ [][ConcNext]_vars

\* up to MaxInserts calls of InsertDocuments, one after the other, on a server
\* that has the collection or not
MilvusInit ==
    /\ EngineIdle /\ ChunkIdle /\ ScoreIdle /\ CategoryIdle /\ ConcIdle
    /\ milvusPc = "idle"
    /\ insertArgs = [texts |-> <<>>, sources |-> <<>>]
    /\ hasCollection = FALSE
    /\ sdkCalls = <<>>
    /\ insertRet = FALSE
    /\ insertCount = 0
    /\ collection \in {NoCollection, ReadyCollection}

MilvusNext ==
    \/ InsertDocumentsBegin
    \/ HasCollectionStep
    \/ CreateCollectionStep
    \/ NewIndexHNSWStep
    \/ CreateIndexStep
    \/ LoadCollectionStep
    \/ InsertStep
    \/ FlushStep

MilvusSpec == MilvusInit /\ [][MilvusNext]_vars

(***************************************************************************)
(* Properties of AddDocuments and GenerateResponse (checked under Spec).   *)
(***************************************************************************)
\* the content of the user message of a recorded ChatCompletion invocation
UserContent(inv) == inv.messages[2].Content

\* C1: a call AddDocuments(texts, sources) with len(texts) != len(sources)
\* returns false and makes no InsertDocuments invocation: the call records
\* none and the store's invocation count is the one before the call.
C1_MismatchRejected ==
    [][(call'.op = "AddDocuments" /\ Len(call'.texts) # Len(call'.sources))
          => /\ call'.retOk = FALSE
             /\ call'.storeInvoked = <<>>
             /\ storeCount' = storeCount]_vars

C1_Witness ==
    /\ call.op = "AddDocuments"
    /\ Len(call.texts) = 1
    /\ Len(call.sources) = 2
    /\ call.storeOk = TRUE
    /\ call.retOk = FALSE

\* C2: whatever the query, the documents (none included) and the model,
\* GenerateResponse sends the chat collaborator exactly 2 messages, the first
\* with role "system" and the second with role "user".
C2_TwoMessages ==
    call.op = "GenerateResponse" =>
        /\ call.chatInvoked # <<>>
        /\ \A k \in 1..Len(call.chatInvoked) :
              /\ Len(call.chatInvoked[k].messages) = 2
              /\ call.chatInvoked[k].messages[1].Role = "system"
              /\ call.chatInvoked[k].messages[2].Role = "user"

C2_Witness ==
    /\ call.op = "GenerateResponse"
    /\ call.ctx = <<>>
    /\ Len(call.chatInvoked) = 1
    /\ Len(call.chatInvoked[1].messages) = 2

\* C3 as stated: the user message contains every input document's text
\* verbatim, also a text that begins or ends with whitespace, and contains
\* the literal query.
C3_EveryTextVerbatim ==
    call.op = "GenerateResponse" =>
        \A k \in 1..Len(call.chatInvoked) :
            /\ \A i \in 1..Len(call.ctx) :
                  Contains(UserContent(call.chatInvoked[k]), call.ctx[i].Text)
            /\ Contains(UserContent(call.chatInvoked[k]), call.query)

\* C3 amended: the user message contains the literal query and every input
\* document's text verbatim, except that the last document's text loses its
\* trailing whitespace (it is trimmed with the block separator that follows).
C3_TextsUpToLastTrailingSpace ==
    call.op = "GenerateResponse" =>
        \A k \in 1..Len(call.chatInvoked) :
            /\ \A i \in 1..(Len(call.ctx) - 1) :
                  Contains(UserContent(call.chatInvoked[k]), call.ctx[i].Text)
            /\ call.ctx # <<>> =>
                  Contains(UserContent(call.chatInvoked[k]),
                           TrimRight(call.ctx[Len(call.ctx)].Text))
            /\ Contains(UserContent(call.chatInvoked[k]), call.query)

C3_Witness ==
    /\ call.op = "GenerateResponse"
    /\ Len(call.ctx) = 2
    /\ call.ctx[1].Text = <<" ","c","a","t">>
    /\ call.ctx[2].Text = <<"c","a","t"," ">>
    /\ call.query = <<" ","q"," ">>
    /\ Len(call.chatInvoked) = 1
    /\ Contains(UserContent(call.chatInvoked[1]), <<" ","c","a","t","\n","\n","S">>)
    /\ ~Contains(UserContent(call.chatInvoked[1]), <<"c","a","t"," ">>)

\* C4: when the chat collaborator returns (text, nil), GenerateResponse
\* returns exactly (text, nil), having invoked the collaborator exactly once
\* with the caller's model.
C4_ReturnsReplyText ==
    (call.op = "GenerateResponse" /\ call.reply.err = Nil) =>
        /\ call.retText = call.reply.text
        /\ call.retErr = Nil
        /\ Len(call.chatInvoked) = 1
        /\ call.chatInvoked[1].model = call.model

C4_Witness ==
    /\ call.op = "GenerateResponse"
    /\ call.reply = [text |-> "stubbed", err |-> Nil]
    /\ call.model = "model-x"
    /\ call.retText = "stubbed"
    /\ chatCount = 1

\* C5: when the chat collaborator's call fails with error e, GenerateResponse
\* returns that same e, and the call invoked the collaborator exactly once.
C5_ErrorPassedThrough ==
    (call.op = "GenerateResponse" /\ call.reply.err # Nil) =>
        /\ call.retErr = call.reply.err
        /\ Len(call.chatInvoked) = 1

C5_Witness ==
    /\ call.op = "GenerateResponse"
    /\ call.reply = [text |-> "partial", err |-> "timeout"]
    /\ call.retErr = "timeout"
    /\ chatCount = 1

\* C6: for texts and sources of equal length, AddDocuments invokes
\* InsertDocuments exactly once, with the same texts and sources, and returns
\* the store's boolean result.
C6_DelegatesToStore ==
    [][(call'.op = "AddDocuments" /\ Len(call'.texts) = Len(call'.sources))
          => /\ call'.storeInvoked = <<[texts |-> call'.texts, sources |-> call'.sources]>>
             /\ call'.retOk = call'.storeOk
             /\ call' # call => storeCount' = storeCount + 1]_vars

C6_Witness ==
    /\ call.op = "AddDocuments"
    /\ call.texts = << <<"d","o","c","1">>, <<"d","o","c","2">> >>
    /\ call.sources = << <<"s","2">>, <<"s","1">> >>
    /\ call.storeOk = FALSE
    /\ call.retOk = FALSE
    /\ storeCount = 1

(***************************************************************************)
(* Properties of ChunkText (checked under ChunkSpec).                      *)
(***************************************************************************)
\* the text of a window, before trimming
WindowText(w) == Slice(text, w.start, w.end)

\* the positions [from, to) of the text that a window's trimmed chunk holds
ChunkFrom(w) == w.start + (Len(WindowText(w)) - Len(TrimLeft(WindowText(w))))
ChunkTo(w) == ChunkFrom(w) + Len(w.chunk)

IsEmitted(w) == w.chunk # <<>>
Emitted == SelectSeq(windows, IsEmitted)

\* the text rebuilt from the windows, each contributing what lies past the
\* end of the window before it
RECURSIVE Rebuilt(_)
Rebuilt(n) ==
    IF n = 0 THEN <<>>
    ELSE Rebuilt(n - 1) \o
         Slice(text, IF n = 1 THEN windows[1].start
                     ELSE Max(windows[n].start, windows[n - 1].end),
               windows[n].end)

WindowsCoverText ==
    /\ Len(text) > 0 => windows # <<>>
    /\ windows # <<>> => windows[1].start = 0 /\ windows[Len(windows)].end = Len(text)
    /\ \A i \in 1..(Len(windows) - 1) : windows[i + 1].start <= windows[i].end
    /\ \A i \in 1..Len(windows) : windows[i].chunk = TrimSpace(WindowText(windows[i]))
    /\ chunks = [i \in 1..Len(Emitted) |-> Emitted[i].chunk]
    /\ Rebuilt(Len(windows)) = text
    /\ \A p \in 1..Len(text) :
          text[p] \notin WhiteSpace =>
              \E i \in 1..Len(windows) :
                  /\ ChunkFrom(windows[i]) < p
                  /\ p <= ChunkTo(windows[i])
                  /\ windows[i].chunk[p - ChunkFrom(windows[i])] = text[p]

\* C7: for chunkSize > 0 and 0 <= overlap < chunkSize, ChunkText terminates:
\* its loop never comes back to a start it has already begun an iteration with.
C7_Terminates == pc # "diverged"

\* C8: for chunkSize > 0 and 0 <= overlap < chunkSize, the windows ChunkText
\* cuts begin at 0, leave no gap and end at len(text), each chunk is its
\* window's text trimmed, the windows rebuild the text, and every
\* non-whitespace character of the text lies in a chunk.
C8_ChunksCoverText == pc \in {"done", "diverged"} => WindowsCoverText

\* the same at the return of ChunkText only
CoverAtReturn == pc = "done" => WindowsCoverText

\* the chunks of a text without break or whitespace: windows of size
\* characters every size - ov characters, the last ending at the text's end
FixedWidthChunks(txt, size, ov) ==
    IF txt = <<>> THEN <<>>
    ELSE LET step == size - ov
             last == CHOOSE k \in 0..Len(txt) :
                        /\ k * step + size >= Len(txt)
                        /\ \A j \in 0..(k - 1) : j * step + size < Len(txt)
         IN  [k \in 1..(last + 1) |->
                Slice(txt, (k - 1) * step, Min((k - 1) * step + size, Len(txt)))]

\* C9: each next window starts at max(0, end - overlap) of the window before,
\* so consecutive chunks share at most overlap characters; a text with no
\* period, newline or whitespace is cut into the fixed-width windows (15 "A",
\* size 10, overlap 2: a chunk of 10 then a chunk of 7).
C9_OverlapStep ==
    /\ \A i \in 1..(Len(windows) - 1) :
          windows[i + 1].start = Max(0, windows[i].end - overlap)
    /\ pc \in {"loop", "diverged"} /\ windows # <<>> =>
          start = Max(0, windows[Len(windows)].end - overlap)
    /\ \A i \in 1..(Len(Emitted) - 1) :
          Min(ChunkTo(Emitted[i]), ChunkTo(Emitted[i + 1]))
            - Max(ChunkFrom(Emitted[i]), ChunkFrom(Emitted[i + 1])) <= overlap
    /\ (pc = "done" /\ \A p \in 1..Len(text) : text[p] = "A") =>
          chunks = FixedWidthChunks(text, chunkSize, overlap)
    /\ (pc = "done" /\ text = TestText /\ chunkSize = TestChunkSize /\ overlap = TestOverlap) =>
          chunks = <<[i \in 1..10 |-> "A"], [i \in 1..7 |-> "A"]>>

C9_Witness ==
    /\ pc = "done"
    /\ text = TestText
    /\ chunkSize = 10
    /\ overlap = 2
    /\ Len(chunks) = 2
    /\ windows[2].start = 8

(***************************************************************************)
(* Properties of calculateQualityScore (checked under ScoreSpec).          *)
(***************************************************************************)
\* C10: for documents whose similarities all lie in [0,1], the score
\* returned lies in [0,10]; for the empty sequence it is 0.0.
C10_ScoreInRange ==
    score # NoScore =>
        /\ 0 <= score
        /\ score <= 10 * ScoreScale
        /\ docs = <<>> => score = 0

C10_Witness ==
    /\ score = 10 * ScoreScale
    /\ Len(docs) = 4
    /\ \A i \in 1..4 : docs[i].Similarity = SimScale

\* C11: the score is non-decreasing in each document's similarity: raising
\* the similarity of one document of docs, the others fixed, gives a score
\* that is at least the score of docs (also when the clamp applies).
C11_ScoreMonotone ==
    score # NoScore =>
        \A i \in 1..Len(docs), s \in ScoreSimilarities :
            s >= docs[i].Similarity =>
                calculateQualityScore([docs EXCEPT ![i].Similarity = s]) >= score

C11_Witness ==
    /\ score = 10 * ScoreScale
    /\ Len(docs) = 4
    /\ docs[1].Similarity = SimScale
    /\ docs[4].Similarity < SimScale

\* the sum over the documents of similarity * weight * 10, in 1/SimScale, with
\* the weights 0.5, 0.3, 0.2 and then 0.1
RECURSIVE WeightedSum(_, _)
WeightedSum(ds, n) ==
    IF n = 0 THEN 0
    ELSE WeightedSum(ds, n - 1)
         + ds[n].Similarity * (IF n = 1 THEN 5 ELSE IF n = 2 THEN 3 ELSE IF n = 3 THEN 2 ELSE 1)

\* the denominator 5.0, 8.0 or 10.0
Denominator(ds) == IF Len(ds) = 1 THEN 5 ELSE IF Len(ds) = 2 THEN 8 ELSE 10

\* C18 as stated: the score is the weighted sum divided by the denominator
\* and clamped to 10.0 (in 1/ScoreScale: the sum times 40 / denominator).
C18_SumOverDenominator ==
    (score # NoScore /\ docs # <<>>) =>
        score = Min(10 * ScoreScale,
                    WeightedSum(docs, Len(docs)) * (40 \div Denominator(docs)))

\* C18 amended: the score is the weighted sum divided by the denominator,
\* multiplied by 10.0, and then clamped to 10.0.
C18_SumOverDenominatorTimesTen ==
    (score # NoScore /\ docs # <<>>) =>
        score = Min(10 * ScoreScale,
                    10 * WeightedSum(docs, Len(docs)) * (40 \div Denominator(docs)))

C18_Witness ==
    /\ Len(docs) = 2
    /\ docs[1].Similarity = 850
    /\ docs[2].Similarity = 425
    /\ score = 276250

FallbackSentence ==
    <<"I"," ","d","o","n","'","t"," ","h","a","v","e"," ","e","n","o","u","g","h"," ","i","n",
      "f","o","r","m","a","t","i","o","n"," ","t","o"," ","a","n","s","w","e","r"," ","t","h",
      "a","t"," ","q","u","e","s","t","i","o","n"," ","b","a","s","e","d"," ","o","n"," ","t",
      "h","e"," ","p","r","o","v","i","d","e","d"," ","c","o","n","t","e","x","t",".">>

\* the context heading followed at once by the question heading
EmptyContextBlock ==
    <<"C","o","n","t","e","x","t",":","\n","\n","\n","Q","u","e","s","t","i","o","n",":"," ">>

AnswerCue ==
    <<"A","n","s","w","e","r",":">>

\* C13: with zero documents GenerateResponse still invokes the chat
\* collaborator, once, with a user prompt that contains the fallback sentence,
\* an empty context block followed by the literal query, and ends with the
\* "Answer:" cue; the call fails only if the collaborator does.
C13_EmptyContextPrompt ==
    (call.op = "GenerateResponse" /\ call.ctx = <<>>) =>
        /\ Len(call.chatInvoked) = 1
        /\ LET u == UserContent(call.chatInvoked[1])
           IN  /\ Contains(u, FallbackSentence)
               /\ Contains(u, EmptyContextBlock \o call.query)
               /\ Len(u) > Len(AnswerCue)
               /\ SubSeq(u, Len(u) - Len(AnswerCue) + 1, Len(u)) = AnswerCue
        /\ call.retErr = call.reply.err
        /\ call.reply.err = Nil => call.retText = call.reply.text

C13_Witness ==
    /\ call.op = "GenerateResponse"
    /\ call.ctx = <<>>
    /\ call.query = <<"q","?">>
    /\ call.reply = [text |-> "stubbed", err |-> Nil]
    /\ call.retText = "stubbed"
    /\ Contains(UserContent(call.chatInvoked[1]), FallbackSentence)

\* C14: ChunkText returns no chunk for the empty text and for a text of
\* whitespace only, and no chunk it appends is empty or begins or ends with
\* whitespace.
C14_ChunksTrimmed ==
    /\ \A i \in 1..Len(chunks) :
          /\ chunks[i] # <<>>
          /\ chunks[i][1] \notin WhiteSpace
          /\ chunks[i][Len(chunks[i])] \notin WhiteSpace
    /\ (pc = "done" /\ \A p \in 1..Len(text) : text[p] \in WhiteSpace) => chunks = <<>>

C14_Witness ==
    /\ pc = "done"
    /\ text = <<"A", " ", "\n", " ", " ", "A">>
    /\ chunkSize = 2
    /\ overlap = 0
    /\ Len(windows) = 3
    /\ chunks = << <<"A">>, <<"A">> >>

\* the block of the i-th document: its number, its similarity as a
\* percentage, its source and its text
ExpectedBlock(i, doc) ==
    <<"S","o","u","r","c","e"," ">> \o FormatInt(i) \o <<" ","(">>
        \o FormatPercent(doc.Similarity)
        \o <<"%"," ","r","e","l","e","v","a","n","t",")",":"," ">> \o doc.Source
        \o <<"\n","C","o","n","t","e","n","t",":"," ">> \o doc.Text \o <<"\n","\n">>

RECURSIVE ExpectedBlocks(_, _)
ExpectedBlocks(ctx, n) ==
    IF n = 0 THEN <<>> ELSE ExpectedBlocks(ctx, n - 1) \o ExpectedBlock(n, ctx[n])

\* C19: whatever the similarities, relevance categories and quality score
\* that GenerateResponse computes for its log, the user message holds, between
\* the header and the question, exactly the blocks of the input documents,
\* one per document, in input order, numbered 1..n (up to the whitespace
\* trimmed at the end of the last block), and the value returned is the
\* collaborator's reply.
C19_DiagnosticsDoNotFilter ==
    call.op = "GenerateResponse" =>
        /\ Len(call.chatInvoked) = 1
        /\ LET u == UserContent(call.chatInvoked[1])
               tail == PromptQuestion \o call.query \o PromptAnswer
           IN  /\ Len(u) >= Len(PromptHeader) + Len(tail)
               /\ SubSeq(u, 1, Len(PromptHeader)) = PromptHeader
               /\ SubSeq(u, Len(u) - Len(tail) + 1, Len(u)) = tail
               /\ SubSeq(u, Len(PromptHeader) + 1, Len(u) - Len(tail))
                     = TrimRight(ExpectedBlocks(call.ctx, Len(call.ctx)))
        /\ Len(call.diag.relevance) = Len(call.ctx)
        /\ call.retErr = call.reply.err
        /\ call.retText = IF call.reply.err = Nil THEN call.reply.text ELSE ""

C19_Witness ==
    /\ call.op = "GenerateResponse"
    /\ Len(call.ctx) = 2
    /\ call.ctx[1].Similarity = 425
    /\ call.ctx[2].Similarity = 850
    /\ call.diag.relevance = <<"Low Relevance", "Very Relevant">>
    /\ call.diag.quality < 7 * ScoreScale
    /\ Contains(UserContent(call.chatInvoked[1]),
                <<"S","o","u","r","c","e"," ","1"," ","(","4","2",".","5","%">>)
    /\ Contains(UserContent(call.chatInvoked[1]),
                <<"S","o","u","r","c","e"," ","2"," ","(","8","5",".","0","%">>)

\* C12: getRelevanceCategory returns the band of the similarity, the bands
\* having inclusive lower bounds 0.9, 0.8, 0.7, 0.6, 0.5 and 0.4: 0.95 is an
\* Excellent Match, 0.65 Moderately Relevant, 0.1 a Poor Match, and a value
\* on a threshold is in the upper band.
C12_Bands ==
    category # NoCategory =>
        /\ category = "Excellent Match" <=> 9 * SimScale <= 10 * simArg
        /\ category = "Very Relevant"
              <=> (8 * SimScale <= 10 * simArg /\ 10 * simArg < 9 * SimScale)
        /\ category = "Relevant"
              <=> (7 * SimScale <= 10 * simArg /\ 10 * simArg < 8 * SimScale)
        /\ category = "Moderately Relevant"
              <=> (6 * SimScale <= 10 * simArg /\ 10 * simArg < 7 * SimScale)
        /\ category = "Somewhat Relevant"
              <=> (5 * SimScale <= 10 * simArg /\ 10 * simArg < 6 * SimScale)
        /\ category = "Low Relevance"
              <=> (4 * SimScale <= 10 * simArg /\ 10 * simArg < 5 * SimScale)
        /\ category = "Poor Match" <=> 10 * simArg < 4 * SimScale
        /\ 100 * simArg = 95 * SimScale => category = "Excellent Match"
        /\ 100 * simArg = 65 * SimScale => category = "Moderately Relevant"
        /\ 100 * simArg = 10 * SimScale => category = "Poor Match"

C12_Witness ==
    /\ 10 * simArg = 6 * SimScale
    /\ category = "Moderately Relevant"

\* C15: for every text and all integers chunkSize and overlap, those outside
\* the contract included, ChunkText never panics.
C15_NoPanic == pc # "panic"

\* C17: every window that does not reach the end of the text, the first one
\* and the later ones, is cut right after its last period or newline when
\* that character's offset from the window's start is > chunkSize/2, and at
\* the raw chunkSize limit otherwise; the next window starts from that end.
C17_BreakPastMidpoint ==
    /\ \A i \in 1..Len(windows) :
          LET w == windows[i]
              raw == RawEnd(text, chunkSize, w.start)
              last == LastBreak(Slice(text, w.start, raw))
          IN  w.end = IF raw < Len(text) /\ last > chunkSize \div 2
                      THEN w.start + last + 1
                      ELSE raw
    /\ \A i \in 1..(Len(windows) - 1) :
          windows[i + 1].start = Max(0, windows[i].end - overlap)

\* the same for the first window only, where start = 0
BreakPastMidpointOfFirstWindow ==
    windows # <<>> =>
        LET w == windows[1]
            raw == RawEnd(text, chunkSize, 0)
            last == LastBreak(Slice(text, 0, raw))
        IN  w.end = IF raw < Len(text) /\ last > chunkSize \div 2
                    THEN last + 1
                    ELSE raw

(***************************************************************************)
(* Properties of concurrent engine calls (checked under ConcSpec).         *)
(***************************************************************************)
\* the user message that GenerateResponse(query, ctx, model) must send
OwnUserContent(query, ctx) ==
    PromptHeader \o TrimRight(ExpectedBlocks(ctx, Len(ctx)))
        \o PromptQuestion \o query \o PromptAnswer

\* C16: the engine's fields are never modified; every call makes at most one
\* collaborator invocation, AddDocuments of the store only and
\* GenerateResponse of the chat collaborator only; and in every interleaving of
\* the callers, what a call passes to its collaborator is determined by its
\* own arguments and what it returns by its own arguments and the reply that
\* its own invocation received.
C16_Stateless ==
    /\ engine = [openai |-> "openai", milvus |-> "milvus"]
    /\ chatCount = Cardinality({c \in Callers : inflight[c].call.chatInvoked # <<>>})
    /\ storeCount = Cardinality({c \in Callers : inflight[c].call.storeInvoked # <<>>})
    /\ \A c \in Callers :
          LET f == inflight[c].call
          IN  /\ Len(f.chatInvoked) + Len(f.storeInvoked) <= 1
              /\ f.op = "AddDocuments" => f.chatInvoked = <<>>
              /\ f.op = "GenerateResponse" => f.storeInvoked = <<>>
              /\ \A i \in 1..Len(f.chatInvoked) :
                    /\ f.chatInvoked[i].model = f.model
                    /\ Len(f.chatInvoked[i].messages) = 2
                    /\ f.chatInvoked[i].messages[1].Content = SystemContent
                    /\ UserContent(f.chatInvoked[i]) = OwnUserContent(f.query, f.ctx)
              /\ \A i \in 1..Len(f.storeInvoked) :
                    /\ f.storeInvoked[i].texts = f.texts
                    /\ f.storeInvoked[i].sources = f.sources
              /\ (inflight[c].state = "returned" /\ f.op = "GenerateResponse") =>
                    /\ f.retErr = f.reply.err
                    /\ f.retText = IF f.reply.err = Nil THEN f.reply.text ELSE ""
              /\ (inflight[c].state = "returned" /\ f.op = "AddDocuments") =>
                    f.retOk = (Len(f.texts) = Len(f.sources) /\ f.storeOk)

\* both callers are inside GenerateResponse at once, with different queries,
\* contexts and models, and both have invoked the chat collaborator
C16_Witness ==
    /\ inflight["c1"].state = "waiting"
    /\ inflight["c2"].state = "waiting"
    /\ inflight["c1"].call.op = "GenerateResponse"
    /\ inflight["c2"].call.op = "GenerateResponse"
    /\ inflight["c1"].call.query # inflight["c2"].call.query
    /\ inflight["c1"].call.ctx = <<>>
    /\ Len(inflight["c2"].call.ctx) = 2
    /\ inflight["c1"].call.model # inflight["c2"].call.model
    /\ chatCount = 2

(***************************************************************************)
(* Properties of MilvusClientImpl.InsertDocuments (checked under           *)
(* MilvusSpec).                                                            *)
(***************************************************************************)
\* the order of the steps when the collection is missing (NewIndexHNSW builds
\* the index description that CreateIndex sends) and when it exists
StepsWhenMissing ==
    <<"HasCollection", "CreateCollection", "NewIndexHNSW", "CreateIndex",
      "LoadCollection", "Insert", "Flush">>

StepsWhenPresent == <<"HasCollection", "Insert", "Flush">>

StepNames == [i \in 1..Len(sdkCalls) |-> sdkCalls[i].step]

IsPrefix(s, t) == Len(s) <= Len(t) /\ s = SubSeq(t, 1, Len(s))

\* C20: the steps that InsertDocuments has performed are an initial part of
\* the fixed order (exists-check, insert, flush when the check found the
\* collection; exists-check, create collection, create index, load, insert,
\* flush when it did not); only the last step performed can have failed, and
\* the method has returned false exactly when it has; it has returned true
\* exactly when it has performed every step of the order and all succeeded.
C20_StepsInOrder ==
    LET order == IF hasCollection THEN StepsWhenPresent ELSE StepsWhenMissing
        n == Len(sdkCalls)
    IN  /\ IsPrefix(StepNames, order)
        /\ \A i \in 1..(n - 1) : sdkCalls[i].ok
        /\ (milvusPc = "returned" /\ ~insertRet) <=> (n > 0 /\ ~sdkCalls[n].ok)
        /\ (milvusPc = "returned" /\ insertRet) <=>
              (StepNames = order /\ \A i \in 1..n : sdkCalls[i].ok)
        /\ milvusPc \notin {"idle", "returned"} => milvusPc = order[n + 1]

\* a call on a server without the collection creates and indexes it, fails to
\* load it and returns false without inserting
C20_Witness ==
    /\ milvusPc = "returned"
    /\ ~insertRet
    /\ ~hasCollection
    /\ StepNames = SubSeq(StepsWhenMissing, 1, 5)
    /\ ~sdkCalls[5].ok
    /\ collection.exists /\ collection.indexed /\ ~collection.loaded
    /\ collection.rows = 0

====
